---------------------------- MODULE Spec2Model ----------------------------
(***************************************************************************)
(* Model of the c2go cast engine (package types: GetArrayTypeAndSize,      *)
(* CastExpr, IsNullExpr) and of the AST nodes MaxFieldAlignmentAttr,       *)
(* IncompleteArrayType and Typedef (package ast).                          *)
(*                                                                         *)
(* Go strings are TLA+ strings; a byte of a string is the one-character    *)
(* string SubSeq(s, i, i).  Go expressions (go/ast) are records tagged by  *)
(* the field t.                                                            *)
(***************************************************************************)
EXTENDS Integers, Sequences, FiniteSets, TLC

VARIABLES
    imports,   \* Program Context: the set of import paths registered so far
    ret,       \* the last CastExpr call: its arguments and what it returned
    nodes,     \* the heap of AST nodes: node id -> node record
    added,     \* history: per node, the AddChild arguments in call order
    parsed,    \* history: per node, the record its parse function returned
    out        \* the last call of GetArrayTypeAndSize or IsNullExpr

vars == <<imports, ret, nodes, added, parsed, out>>

(***************************************************************************)
(* Bounds of the model.                                                    *)
(***************************************************************************)
MaxLen == 2        \* array lengths 0..MaxLen (and one two-digit length)
MaxNodes == 3      \* AST nodes allocated by the parser
MaxAdds == 2       \* AddChild calls of a parse

Max(S) == CHOOSE m \in S : \A k \in S : k <= m

(***************************************************************************)
(* Strings, digits and the regular expressions of the package.             *)
(***************************************************************************)
CharAt(s, i) == SubSeq(s, i, i)

Digits == "0123456789"

IsDigit(c) == \E d \in 1..10 : CharAt(Digits, d) = c

DigitVal(c) == (CHOOSE d \in 1..10 : CharAt(Digits, d) = c) - 1

RECURSIVE Itoa(_)
Itoa(n) ==
    IF n < 0 THEN "-" \o Itoa(0 - n)
    ELSE IF n < 10 THEN CharAt(Digits, n + 1)
    ELSE Itoa(n \div 10) \o CharAt(Digits, (n % 10) + 1)

RECURSIVE Atoi(_)
Atoi(s) ==
    IF Len(s) = 1 THEN DigitVal(s)
    ELSE 10 * Atoi(SubSeq(s, 1, Len(s) - 1)) + DigitVal(CharAt(s, Len(s)))

\* the literal lit occurs in s at position i
HasAt(s, i, lit) ==
    /\ i >= 1
    /\ i + Len(lit) - 1 <= Len(s)
    /\ SubSeq(s, i, i + Len(lit) - 1) = lit

Contains(s, lit) == \E i \in 1..Len(s) : HasAt(s, i, lit)

\* the end of the longest run of digits of s that starts at i (i - 1: none)
DigitsEnd(s, i) ==
    Max({e \in (i - 1)..Len(s) : \A k \in i..e : IsDigit(CharAt(s, k))})

\* pre (\d+) post matches s at position i
NumMatchAt(s, i, pre, post) ==
    /\ HasAt(s, i, pre)
    /\ DigitsEnd(s, i + Len(pre)) >= i + Len(pre)
    /\ HasAt(s, DigitsEnd(s, i + Len(pre)) + 1, post)

\* the group (\d+) of that match
NumMatchGroup(s, i, pre) ==
    SubSeq(s, i + Len(pre), DigitsEnd(s, i + Len(pre)))

\* the positions at which pre (\d+) post matches somewhere in s
NumMatches(s, pre, post) == {i \in 1..Len(s) : NumMatchAt(s, i, pre, post)}

Min(S) == CHOOSE m \in S : \A k \in S : m <= k

(***************************************************************************)
(* GetArrayTypeAndSize: the regular expression is "any text, a space, an   *)
(* opening bracket, digits, a closing bracket".  It is not anchored and    *)
(* the leading "any text" is greedy, so the last " [digits]" of s is the   *)
(* one taken and text may follow it.                                       *)
(***************************************************************************)
GetArrayTypeAndSize(s) ==
    LET m == NumMatches(s, " [", "]")
    IN  IF m # {}
        THEN [type |-> SubSeq(s, 1, Max(m) - 1),
              size |-> Atoi(NumMatchGroup(s, Max(m), " ["))]
        ELSE [type |-> "", size |-> -1]

(***************************************************************************)
(* go/ast expressions.                                                     *)
(***************************************************************************)
Ident(name) == [t |-> "Ident", name |-> name]

BasicLit(kind, value) == [t |-> "BasicLit", kind |-> kind, value |-> value]

ParenExpr(x) == [t |-> "ParenExpr", x |-> x]

BinaryExpr(x, op, y) == [t |-> "BinaryExpr", x |-> x, op |-> op, y |-> y]

UnaryExpr(op, x) == [t |-> "UnaryExpr", op |-> op, x |-> x]

CallExpr(fun, args) == [t |-> "CallExpr", fun |-> fun, args |-> args]

SliceExpr(x, high) == [t |-> "SliceExpr", x |-> x, high |-> high]

ArrayType(elt) == [t |-> "ArrayType", elt |-> elt]

CompositeLit(type, elts) == [t |-> "CompositeLit", type |-> type, elts |-> elts]

(***************************************************************************)
(* IsNullExpr: a ParenExpr whose X is a BasicLit with Value "0".  The Kind *)
(* of the literal is not looked at.                                        *)
(***************************************************************************)
IsNullExpr(n) ==
    /\ n.t = "ParenExpr"
    /\ n.x.t = "BasicLit"
    /\ n.x.value = "0"

(***************************************************************************)
(* Package util: the constructors CastExpr builds its results with.        *)
(***************************************************************************)
NewIdent(name) == Ident(name)

NewTypeIdent(name) == Ident(name)

NewNil == Ident("nil")

NewIntLit(n) == BasicLit("INT", Itoa(n))

NewFloatLit(text) == BasicLit("FLOAT", text)

NewStringLit(text) == BasicLit("STRING", text)

NewCallExpr(name, arg) == CallExpr(Ident(name), <<arg>>)

NewUnaryExpr(op, x) == UnaryExpr(op, x)

InStrings(x, list) == \E i \in 1..Len(list) : list[i] = x

Lower == "abcdefghijklmnopqrstuvwxyz"

Upper == "ABCDEFGHIJKLMNOPQRSTUVWXYZ"

Ucfirst(s) ==
    IF s = "" THEN ""
    ELSE IF \E i \in 1..26 : CharAt(Lower, i) = CharAt(s, 1)
    THEN CharAt(Upper, CHOOSE i \in 1..26 : CharAt(Lower, i) = CharAt(s, 1))
             \o SubSeq(s, 2, Len(s))
    ELSE s

RECURSIVE TrimLeftUnderscores(_)
TrimLeftUnderscores(s) ==
    IF s # "" /\ CharAt(s, 1) = "_"
    THEN TrimLeftUnderscores(SubSeq(s, 2, Len(s)))
    ELSE s

GetExportedName(field) == Ucfirst(TrimLeftUnderscores(field))

(***************************************************************************)
(* strconv.Unquote of a double-quoted Go string literal, to the sequence   *)
(* of its bytes, and fmt.Sprintf("%q", c) of one byte.  ok = FALSE is the  *)
(* error return of Unquote.                                                *)
(***************************************************************************)
RECURSIVE UnquoteBody(_)
UnquoteBody(s) ==
    IF s = "" THEN [ok |-> TRUE, bytes |-> <<>>]
    ELSE IF CharAt(s, 1) = "\""  THEN [ok |-> FALSE, bytes |-> <<>>]
    ELSE IF CharAt(s, 1) = "\\"
    THEN IF Len(s) < 2 \/ CharAt(s, 2) \notin {"n", "\\", "\""}
         THEN [ok |-> FALSE, bytes |-> <<>>]
         ELSE LET rest == UnquoteBody(SubSeq(s, 3, Len(s)))
                  c == IF CharAt(s, 2) = "n" THEN "\n" ELSE CharAt(s, 2)
              IN  [ok |-> rest.ok, bytes |-> <<c>> \o rest.bytes]
    ELSE LET rest == UnquoteBody(SubSeq(s, 2, Len(s)))
         IN  [ok |-> rest.ok, bytes |-> <<CharAt(s, 1)>> \o rest.bytes]

Unquote(s) ==
    IF Len(s) >= 2 /\ CharAt(s, 1) = "\"" /\ CharAt(s, Len(s)) = "\""
    THEN UnquoteBody(SubSeq(s, 2, Len(s) - 1))
    ELSE [ok |-> FALSE, bytes |-> <<>>]

SprintfQ(c) ==
    IF c = "\n" THEN "'\\n'"
    ELSE IF c = "\\" THEN "'\\\\'"
    ELSE IF c = "'" THEN "'\\''"
    ELSE "'" \o c \o "'"

(***************************************************************************)
(* The Type Resolver.  Its source is not part of the files modelled here;  *)
(* it is modelled from the specification: the primitive table, pointers,   *)
(* arrays, the opaque handle of an unknown struct, UnknownType for a       *)
(* spelling no rule matches, and every resolved spelling resolving to      *)
(* itself.  CastExpr's own comments name `char *[N]` as a spelling it      *)
(* meets after resolution, so that spelling resolves to itself.            *)
(***************************************************************************)
ArrayLens == (0..MaxLen) \cup {10 + MaxLen}

FixedByteArrays == {"[" \o Itoa(n) \o "]byte" : n \in ArrayLens}

CharPointerArrays == {"char *[" \o Itoa(n) \o "]" : n \in ArrayLens}

CharArrays == {"char [" \o Itoa(n) \o "]" : n \in ArrayLens}

NoarchImport == "github.com/elliotchance/c2go/noarch"

ResolvedTypes ==
    {"", "null", "int", "float32", "float64", "bool", "string", "[]byte",
     "[][]byte", "*int", "*byte", "*_IO_FILE", "*noarch.File",
     "darwin.CtRuneT", "Foo", "interface{}"}
        \cup FixedByteArrays \cup CharPointerArrays

CTypes ==
    {"void *", "void", "float", "double", "_Bool", "char *", "int *",
     "FILE *", "struct _IO_FILE *", "struct Foo", "unknown_t"} \cup CharArrays

RawTypes == CTypes \cup ResolvedTypes

ResolveType(s) ==
    IF s \in ResolvedTypes THEN [type |-> s, err |-> "nil"]
    ELSE IF s = "void" THEN [type |-> "", err |-> "nil"]
    ELSE IF s = "void *" THEN [type |-> "interface{}", err |-> "nil"]
    ELSE IF s = "float" THEN [type |-> "float32", err |-> "nil"]
    ELSE IF s = "double" THEN [type |-> "float64", err |-> "nil"]
    ELSE IF s = "_Bool" THEN [type |-> "bool", err |-> "nil"]
    ELSE IF s = "char *" THEN [type |-> "[]byte", err |-> "nil"]
    ELSE IF s = "int *" THEN [type |-> "*int", err |-> "nil"]
    ELSE IF s = "FILE *" THEN [type |-> "*noarch.File", err |-> "nil"]
    ELSE IF s = "struct _IO_FILE *" THEN [type |-> "*_IO_FILE", err |-> "nil"]
    ELSE IF s = "struct Foo" THEN [type |-> "Foo", err |-> "nil"]
    ELSE IF s \in CharArrays
    THEN [type |-> "[" \o Itoa(GetArrayTypeAndSize(s).size) \o "]byte",
          err |-> "nil"]
    ELSE [type |-> "interface{}", err |-> "UnknownType"]

(***************************************************************************)
(* CastExpr.  A call returns (expression, error) or panics; Return, Fail   *)
(* and Panic are the three outcomes, each with the imports of the Program  *)
(* Context as the call leaves them.                                        *)
(***************************************************************************)
NoExpr == [t |-> "none"]

Return(imp, e) == [expr |-> e, err |-> "nil", panic |-> FALSE, imports |-> imp]

Fail(imp, e, err) == [expr |-> e, err |-> err, panic |-> FALSE, imports |-> imp]

Panic(imp) == [expr |-> NoExpr, err |-> "nil", panic |-> TRUE, imports |-> imp]

AddImport(imp, path) == imp \cup {path}

\* the list "types" of CastExpr
types ==
    <<"byte", "int", "int8", "int16", "int32", "int64",
      "uint8", "uint16", "uint32", "uint64",
      "float32", "float64",
      "__uint16_t", "size_t",
      "__darwin_ct_rune_t", "darwin.CtRuneT">>

IsEmptyRule(fromType, toType) == fromType = "" \/ toType = ""

IsLinuxFileRule(fromType, toType) ==
    fromType = "*_IO_FILE" /\ toType = "*noarch.File"

\* a slip: the identity rule applied to the primitive types only
IsIdentityRulePrimitive(fromType, toType) ==
    fromType = toType /\ InStrings(fromType, types)

IsIdentityRule(fromType, toType) == fromType = toType

IsNumericToBoolRule(fromType, toType) ==
    InStrings(fromType, types) /\ toType = "bool"

\* string -> []byte, string -> char *[13]
IsStringToBytesRule(fromType, toType) ==
    /\ fromType = "string"
    /\ \/ Contains(toType, "[]byte")
       \/ NumMatches(toType, "char *[", "]") # {}

StringToBytes(imp, expr) ==
    IF expr.t # "BasicLit" THEN Panic(imp)
    ELSE LET strValue == Unquote(expr.value)
         IN  IF ~strValue.ok THEN Panic(imp)
             ELSE Return(imp,
                     CompositeLit(ArrayType(NewTypeIdent("byte")),
                         [i \in 1..Len(strValue.bytes) |->
                             BasicLit("CHAR", SprintfQ(strValue.bytes[i]))]
                         \o <<NewIntLit(0)>>))

\* [7]byte -> string, char *[12] -> string
IsBytesToStringRule(fromType, toType) ==
    /\ \/ NumMatches(fromType, "[", "]byte") # {}
       \/ NumMatches(fromType, "char *[", "]") # {}
    /\ toType = "string"

BytesToStringSize(fromType) ==
    IF NumMatches(fromType, "[", "]byte") # {}
    THEN Atoi(NumMatchGroup(fromType,
                            Min(NumMatches(fromType, "[", "]byte")), "["))
    ELSE Atoi(NumMatchGroup(fromType,
                            Min(NumMatches(fromType, "char *[", "]")),
                            "char *["))

BytesToStringBug(expr, size) ==
    NewCallExpr("string", SliceExpr(expr, NewIntLit(size)))

BytesToString(expr, size) ==
    NewCallExpr("string", SliceExpr(expr, NewIntLit(size - 1)))

IsPointerToBoolRule(fromType, toType) ==
    CharAt(fromType, 1) = "*" /\ toType = "bool"

IsBytesToBoolRule(fromType, toType) == fromType = "[]byte" /\ toType = "bool"

BytesToBool(expr) ==
    NewUnaryExpr("!", NewCallExpr("noarch.CStringIsNull", expr))

IsIntToIntPointerRule(fromType, toType) == fromType = "int" /\ toType = "*int"

IsIntToBytePointerRule(fromType, toType) ==
    fromType = "int" /\ toType = "*byte"

IsBoolRule(fromType, toType) == fromType = "_Bool" /\ toType = "bool"

IsNumericRule(fromType, toType) ==
    InStrings(fromType, types) /\ InStrings(toType, types)

\* strings.Split(name, ".") and its last part
LastPart(name) ==
    IF Contains(name, ".")
    THEN SubSeq(name, Max({i \in 1..Len(name) : CharAt(name, i) = "."}) + 1,
                Len(name))
    ELSE name

FallbackName(fromType, toType) ==
    "noarch." \o GetExportedName(LastPart(fromType))
        \o "To" \o GetExportedName(LastPart(toType))

FallbackNoImport(imp, expr, fromType, toType) ==
    Return(imp, NewCallExpr(FallbackName(fromType, toType), expr))

Fallback(imp, expr, fromType, toType) ==
    Return(AddImport(imp, NoarchImport),
           NewCallExpr(FallbackName(fromType, toType), expr))

\* CastExpr from the first null conversion on: both types are resolved
CastResolved(imp, expr, fromType, toType) ==
    IF fromType = "null" /\ toType = "[][]byte" THEN Return(imp, NewNil)
    ELSE IF fromType = "null" /\ toType = "float64"
    THEN Return(imp, NewFloatLit("0.0"))
    ELSE IF fromType = "null" /\ toType = "bool"
    THEN Return(imp, NewIdent("false"))
    ELSE IF IsEmptyRule(fromType, toType) THEN Return(imp, expr)
    ELSE IF fromType = "null" /\ toType = "[]byte" THEN Return(imp, NewNil)
    ELSE IF IsLinuxFileRule(fromType, toType) THEN Return(imp, expr)
    ELSE IF IsIdentityRule(fromType, toType) THEN Return(imp, expr)
    ELSE IF IsNumericToBoolRule(fromType, toType)
    THEN Return(imp, BinaryExpr(expr, "!=", NewIntLit(0)))
    ELSE IF IsStringToBytesRule(fromType, toType) THEN StringToBytes(imp, expr)
    ELSE IF IsBytesToStringRule(fromType, toType)
    THEN Return(imp, BytesToString(expr, BytesToStringSize(fromType)))
    ELSE IF IsPointerToBoolRule(fromType, toType)
    THEN Return(imp, BinaryExpr(expr, "!=", NewNil))
    ELSE IF IsBytesToBoolRule(fromType, toType) THEN Return(imp, BytesToBool(expr))
    ELSE IF IsIntToIntPointerRule(fromType, toType) THEN Return(imp, NewNil)
    ELSE IF IsIntToBytePointerRule(fromType, toType)
    THEN Return(imp, NewStringLit("\"\""))
    ELSE IF IsBoolRule(fromType, toType) THEN Return(imp, expr)
    ELSE IF IsNumericRule(fromType, toType)
    THEN Return(imp, NewCallExpr(toType, expr))
    ELSE Fallback(imp, expr, fromType, toType)

\* a slip: the void pointer rule placed after the resolution of the types
CastExprResolveFirst(imp, expr, fromType, toType) ==
    IF ResolveType(fromType).err # "nil"
    THEN Fail(imp, expr, ResolveType(fromType).err)
    ELSE IF ResolveType(toType).err # "nil"
    THEN Fail(imp, expr, ResolveType(toType).err)
    ELSE IF toType = "void *" THEN Return(imp, expr)
    ELSE CastResolved(imp, expr, ResolveType(fromType).type,
                      ResolveType(toType).type)

CastExpr(imp, expr, fromType, toType) ==
    IF toType = "void *" THEN Return(imp, expr)
    ELSE IF ResolveType(fromType).err # "nil"
    THEN Fail(imp, expr, ResolveType(fromType).err)
    ELSE IF ResolveType(toType).err # "nil"
    THEN Fail(imp, expr, ResolveType(toType).err)
    ELSE CastResolved(imp, expr, ResolveType(fromType).type,
                      ResolveType(toType).type)

(***************************************************************************)
(* The cast engine as a state machine: a Program Context that starts with  *)
(* no import, calls of CastExpr on it, and imports registered by the rest  *)
(* of the translator.  ret holds a call's result until the caller takes    *)
(* it.  A panic ends the run.                                              *)
(***************************************************************************)
CastExprs ==
    {Ident("x"),
     ParenExpr(BasicLit("INT", "0")),
     BasicLit("STRING", "\"\""),
     BasicLit("STRING", "\"hi\""),
     BasicLit("STRING", "\"a\\n\"")}

ImportPaths == {NoarchImport, "github.com/elliotchance/c2go/darwin"}

NoCall ==
    [called |-> FALSE, e |-> NoExpr, from |-> "", to |-> "", expr |-> NoExpr,
     err |-> "nil", panic |-> FALSE, before |-> {}]

ASTIdle == nodes = <<>> /\ added = <<>> /\ parsed = <<>>

NoOut == [op |-> "none"]

Init ==
    /\ imports = {}
    /\ ret = NoCall
    /\ ASTIdle
    /\ out = NoOut

\* a call of CastExpr; the caller has taken the result of the call before
Cast ==
    /\ ret = NoCall
    /\ \E expr \in CastExprs, fromType \in RawTypes, toType \in RawTypes :
          LET r == CastExpr(imports, expr, fromType, toType)
          IN  /\ imports' = r.imports
              /\ ret' = [called |-> TRUE, e |-> expr, from |-> fromType,
                         to |-> toType, expr |-> r.expr, err |-> r.err,
                         panic |-> r.panic, before |-> imports]
    /\ UNCHANGED <<nodes, added, parsed, out>>

\* the caller takes what CastExpr returned; after a panic there is no caller
TakeResult ==
    /\ ret.called
    /\ ~ret.panic
    /\ ret' = NoCall
    /\ UNCHANGED <<imports, nodes, added, parsed, out>>

\* the rest of the translator registers an import
ProgramAddImport(path) ==
    /\ ret = NoCall
    /\ imports' = AddImport(imports, path)
    /\ UNCHANGED <<ret, nodes, added, parsed, out>>

Next ==
    \/ Cast
    \/ TakeResult
    \/ \E path \in ImportPaths : ProgramAddImport(path)

Spec == Init /\ [][Next]_vars

(***************************************************************************)
(* Package ast.  A node lives on the heap at an id; its children are node  *)
(* ids.  The parse functions get the groups the line's regular expression  *)
(* captured; the front-end's addresses are unique, so the address is the   *)
(* one of the node's id.                                                   *)
(***************************************************************************)
Addresses == [i \in 1..(MaxNodes + 1) |-> "0x7f" \o Itoa(i)]

Positions == {"col:1, col:9"}

Sizes == {"1", "8"}

IncompleteArrayTypes == {"int []"}

TypedefTypes == {"size_t"}

parseMaxFieldAlignmentAttr(groups) ==
    [kind |-> "MaxFieldAlignmentAttr",
     Address |-> groups.address,
     Position |-> groups.position,
     Size |-> Atoi(groups.size),
     Children |-> <<>>]

parseIncompleteArrayType(groups) ==
    [kind |-> "IncompleteArrayType",
     Address |-> groups.address,
     Type |-> groups.type,
     Children |-> <<>>]

parseTypedef(groups) ==
    [kind |-> "Typedef",
     Address |-> groups.address,
     Type |-> groups.type,
     Children |-> <<>>]

\* a slip: the new child put in front of the others
MaxFieldAlignmentAttrAddChildFront(n, node) ==
    [n EXCEPT !.Children = <<node>> \o @]

MaxFieldAlignmentAttrAddChild(n, node) ==
    [n EXCEPT !.Children = Append(@, node)]

IncompleteArrayTypeAddChild(n, node) ==
    [n EXCEPT !.Children = Append(@, node)]

TypedefAddChild(n, node) ==
    [n EXCEPT !.Children = Append(@, node)]

CastIdle == imports = {} /\ ret = NoCall

InitAST ==
    /\ CastIdle
    /\ ASTIdle
    /\ out = NoOut

\* the parser allocates the node a parse function returned
Allocate(node) ==
    /\ Len(nodes) < MaxNodes
    /\ nodes' = Append(nodes, node)
    /\ parsed' = Append(parsed, node)
    /\ added' = Append(added, <<>>)
    /\ UNCHANGED <<imports, ret, out>>

ParseMaxFieldAlignmentAttr(position, size) ==
    Allocate(parseMaxFieldAlignmentAttr(
        [address |-> Addresses[Len(nodes) + 1], position |-> position,
         size |-> size]))

ParseIncompleteArrayType(type) ==
    Allocate(parseIncompleteArrayType(
        [address |-> Addresses[Len(nodes) + 1], type |-> type]))

ParseTypedef(type) ==
    Allocate(parseTypedef(
        [address |-> Addresses[Len(nodes) + 1], type |-> type]))

RECURSIVE TotalLen(_)
TotalLen(seqs) ==
    IF seqs = <<>> THEN 0 ELSE Len(Head(seqs)) + TotalLen(Tail(seqs))

\* n.AddChild(node) on the node at id n; the parser adds a node to a node
\* created before it
AddChildCall(kind, n, node) ==
    /\ n \in 1..Len(nodes)
    /\ node \in (n + 1)..Len(nodes)
    /\ nodes[n].kind = kind
    /\ TotalLen(added) < MaxAdds
    /\ added' = [added EXCEPT ![n] = Append(@, node)]
    /\ UNCHANGED <<parsed, imports, ret, out>>

AddChildMaxFieldAlignmentAttr(n, node) ==
    /\ AddChildCall("MaxFieldAlignmentAttr", n, node)
    /\ nodes' = [nodes EXCEPT ![n] = MaxFieldAlignmentAttrAddChild(@, node)]

AddChildIncompleteArrayType(n, node) ==
    /\ AddChildCall("IncompleteArrayType", n, node)
    /\ nodes' = [nodes EXCEPT ![n] = IncompleteArrayTypeAddChild(@, node)]

AddChildTypedef(n, node) ==
    /\ AddChildCall("Typedef", n, node)
    /\ nodes' = [nodes EXCEPT ![n] = TypedefAddChild(@, node)]

NextAST ==
    \/ \E position \in Positions, size \in Sizes :
          ParseMaxFieldAlignmentAttr(position, size)
    \/ \E type \in IncompleteArrayTypes : ParseIncompleteArrayType(type)
    \/ \E type \in TypedefTypes : ParseTypedef(type)
    \/ \E n \in 1..MaxNodes, node \in 1..MaxNodes :
          AddChildMaxFieldAlignmentAttr(n, node)
    \/ \E n \in 1..MaxNodes, node \in 1..MaxNodes :
          AddChildIncompleteArrayType(n, node)
    \/ \E n \in 1..MaxNodes, node \in 1..MaxNodes :
          AddChildTypedef(n, node)

SpecAST == InitAST /\ [][NextAST]_vars

(***************************************************************************)
(* GetArrayTypeAndSize and IsNullExpr called on C type spellings and on    *)
(* expressions.                                                            *)
(***************************************************************************)
ElemSpellings == {"int", "char", "char *", "unsigned int", "struct Foo"}

\* T [N]: the spelling of an array of N elements of type T
FixedArray(T, n) == T \o " [" \o Itoa(n) \o "]"

\* T []: the spelling of an incomplete array
IncompleteArray(T) == T \o " []"

\* T *[N] with T * a pointer type: the front-end puts no space before [
PointerArray(T, n) == T \o " *[" \o Itoa(n) \o "]"

\* T (*)[N]: a pointer to an array
ArrayPointer(T, n) == T \o " (*)[" \o Itoa(n) \o "]"

\* T [N][M]: an array of N arrays of M elements
Array2(T, n, m) == T \o " [" \o Itoa(n) \o "][" \o Itoa(m) \o "]"

\* void (T [N]): a function type spelled with an array parameter
FuncOfArray(T, n) == "void (" \o T \o " [" \o Itoa(n) \o "])"

FixedArraySpellings == {FixedArray(T, n) : T \in ElemSpellings, n \in ArrayLens}

NotFixedArraySpellings ==
    ElemSpellings
        \cup {T \o " *" : T \in ElemSpellings}
        \cup {IncompleteArray(T) : T \in ElemSpellings}
        \cup {ArrayPointer(T, n) : T \in ElemSpellings, n \in ArrayLens}
        \cup {FuncOfArray(T, n) : T \in ElemSpellings, n \in ArrayLens}

Spellings ==
    FixedArraySpellings
        \cup NotFixedArraySpellings
        \cup {PointerArray(T, n) : T \in {"char", "int"}, n \in ArrayLens}
        \cup {Array2(T, n, m) : T \in {"int"}, n \in ArrayLens, m \in ArrayLens}

Literals ==
    {BasicLit("INT", v) : v \in {"0", "1", "00", "0x0"}}
        \cup {BasicLit("FLOAT", v) : v \in {"0", "0.0", "1.5"}}
        \cup {BasicLit("CHAR", v) : v \in {"'0'", "'a'"}}
        \cup {BasicLit("STRING", v) : v \in {"\"0\"", "\"\""}}

Atoms == Literals \cup {Ident("x"), Ident("nil")}

NullExprs ==
    Atoms
        \cup {ParenExpr(a) : a \in Atoms}
        \cup {ParenExpr(ParenExpr(a)) : a \in Atoms}
        \cup {UnaryExpr("-", a) : a \in Literals}

InitUtil ==
    /\ CastIdle
    /\ ASTIdle
    /\ out = NoOut

CallGetArrayTypeAndSize(s) ==
    /\ out' = [op |-> "GetArrayTypeAndSize", s |-> s,
               result |-> GetArrayTypeAndSize(s)]
    /\ UNCHANGED <<imports, ret, nodes, added, parsed>>

CallIsNullExpr(n) ==
    /\ out' = [op |-> "IsNullExpr", n |-> n, result |-> IsNullExpr(n)]
    /\ UNCHANGED <<imports, ret, nodes, added, parsed>>

NextUtil ==
    \/ \E s \in Spellings : CallGetArrayTypeAndSize(s)
    \/ \E n \in NullExprs : CallIsNullExpr(n)

SpecUtil == InitUtil /\ [][NextUtil]_vars

(***************************************************************************)
(* Properties of CastExpr, stated on the last call (ret) and the Program   *)
(* Context as the call left it.                                            *)
(***************************************************************************)
RetFrom == ResolveType(ret.from)

RetTo == ResolveType(ret.to)

RetResolved == ret.called /\ RetFrom.err = "nil" /\ RetTo.err = "nil"

Returned(e) == ~ret.panic /\ ret.err = "nil" /\ ret.expr = e

\* C1 (cast identity): a call of CastExpr with fromType = toType = T, T
\* resolving without error to a non-empty spelling, returns the expression
\* it was given, unchanged, and a nil error.
C1_CastIdentity ==
    (ret.called /\ ret.from = ret.to /\ RetFrom.err = "nil"
        /\ RetFrom.type # "")
        => Returned(ret.e)

\* C1 witness: an identity cast of a type that is no primitive number and
\* not the void pointer has returned its argument.
C1_Witness ==
    /\ ret.called
    /\ ret.from = "char [2]"
    /\ ret.to = "char [2]"
    /\ ret.e = Ident("x")
    /\ ret.expr = Ident("x")
    /\ ret.err = "nil"

IsPointerType(t) == HasAt(t, 1, "*")

IsSequenceType(t) == HasAt(t, 1, "[]")

IsFloatType(t) == t \in {"float32", "float64"}

NullLiteral(t) ==
    IF IsPointerType(t) \/ IsSequenceType(t) THEN Ident("nil")
    ELSE IF IsFloatType(t) THEN BasicLit("FLOAT", "0.0")
    ELSE IF t = "bool" THEN Ident("false")
    ELSE BasicLit("STRING", "\"\"")

IsNullTarget(t) ==
    IsPointerType(t) \/ IsSequenceType(t) \/ IsFloatType(t)
        \/ t \in {"bool", "string"}

\* C2 (null propagation): a call of CastExpr whose source type is "null"
\* and whose target type resolves to a pointer, a sequence, a floating
\* type, boolean or string returns the null literal of the target: nil,
\* 0.0, false or "".
C2_NullPropagation ==
    (RetResolved /\ ret.to # "void *" /\ RetFrom.type = "null"
        /\ IsNullTarget(RetTo.type))
        => Returned(NullLiteral(RetTo.type))

\* C3 (void pointer target): a call of CastExpr with toType "void *"
\* returns the expression it was given and a nil error, whatever fromType
\* is, resolvable or not, and leaves the Program Context as it was.
C3_VoidPointerTarget ==
    (ret.called /\ ret.to = "void *")
        => Returned(ret.e) /\ imports = ret.before

\* C3 witness: a cast to "void *" from a type the resolver cannot resolve
\* has returned its argument and no error.
C3_Witness ==
    /\ ret.called
    /\ ret.to = "void *"
    /\ ret.from = "unknown_t"
    /\ RetFrom.err # "nil"
    /\ ret.expr = ret.e
    /\ ret.err = "nil"

\* a byte sequence: a byte array of variable or fixed length, or a
\* fixed-length char-pointer array
IsByteSequence(t) ==
    t = "[]byte" \/ t \in FixedByteArrays \/ t \in CharPointerArrays

IsStringLit(e) == e.t = "BasicLit" /\ e.kind = "STRING"

\* the bytes of the string literal in order, then one NUL
BytesAndNul(e) ==
    LET b == Unquote(e.value).bytes
    IN  [i \in 1..(Len(b) + 1) |->
            IF i <= Len(b) THEN BasicLit("CHAR", SprintfQ(b[i]))
            ELSE BasicLit("INT", "0")]

\* C4 (string to byte sequence): a call of CastExpr on a string literal
\* whose source type resolves to string returns, when the target is a
\* byte sequence, the composite literal of the bytes of the string
\* followed by one NUL; and it returns a composite literal for such
\* targets only.
C4_StringToByteSequence ==
    (RetResolved /\ ret.to # "void *" /\ RetFrom.type = "string"
        /\ IsStringLit(ret.e))
        => /\ IsByteSequence(RetTo.type)
               => /\ ~ret.panic
                  /\ ret.err = "nil"
                  /\ ret.expr.t = "CompositeLit"
                  /\ ret.expr.elts = BytesAndNul(ret.e)
           /\ (~ret.panic /\ ret.expr.t = "CompositeLit")
               => IsByteSequence(RetTo.type)

\* C5 (byte sequence to string): a call of CastExpr whose source type
\* resolves to [N]byte or char *[N] and whose target resolves to string
\* returns string(e[:N-1]), for every declared length N.
C5_ByteSequenceToString ==
    \A n \in ArrayLens :
        (RetResolved /\ ret.to # "void *" /\ RetTo.type = "string"
            /\ RetFrom.type \in {"[" \o Itoa(n) \o "]byte",
                                 "char *[" \o Itoa(n) \o "]"})
            => Returned(CallExpr(Ident("string"),
                            <<SliceExpr(ret.e, BasicLit("INT", Itoa(n - 1)))>>))

\* C5 witness: a fixed byte array of a two-digit length has been cast to
\* string, and the slice ends one below that length.
C5_Witness ==
    /\ RetResolved
    /\ RetTo.type = "string"
    /\ RetFrom.type = "[" \o Itoa(10 + MaxLen) \o "]byte"
    /\ ret.expr.t = "CallExpr"
    /\ ret.expr.args[1].high.value = Itoa(9 + MaxLen)

\* the earlier rules as the claim lists them, each read as widely as the
\* specification or the code reads it
ListedRuleMatches(fromType, toType) ==
    \/ fromType = "null" /\ IsNullTarget(toType)
    \/ fromType = toType
    \/ InStrings(fromType, types) /\ toType = "bool"
    \/ IsPointerType(fromType) /\ toType = "bool"
    \/ fromType = "string"
          /\ (IsByteSequence(toType) \/ Contains(toType, "[]byte"))
    \/ (IsByteSequence(fromType) \/ Contains(fromType, "]byte"))
          /\ toType = "string"
    \/ fromType = "[]byte" /\ toType = "bool"
    \/ InStrings(fromType, types) /\ InStrings(toType, types)

\* the special cases CastExpr has besides: the linux FILE, the integer
\* cast to an int or byte pointer, and _Bool
SpecialCaseMatches(fromType, toType) ==
    \/ fromType = "*_IO_FILE" /\ toType = "*noarch.File"
    \/ fromType = "int" /\ toType \in {"*int", "*byte"}
    \/ fromType = "_Bool" /\ toType = "bool"

\* the text of s after its last '.', all of s when it has none
AfterLastDot(s) ==
    IF \E i \in 1..Len(s) : CharAt(s, i) = "."
    THEN LET i == CHOOSE i \in 1..Len(s) :
                     /\ CharAt(s, i) = "."
                     /\ \A j \in (i + 1)..Len(s) : CharAt(s, j) # "."
         IN  SubSeq(s, i + 1, Len(s))
    ELSE s

ShimCall(e, fromType, toType) ==
    CallExpr(Ident("noarch." \o GetExportedName(AfterLastDot(fromType))
                       \o "To" \o GetExportedName(AfterLastDot(toType))),
             <<e>>)

FallbackCase ==
    /\ RetResolved
    /\ ret.to # "void *"
    /\ RetFrom.type # ""
    /\ RetTo.type # ""
    /\ ~ListedRuleMatches(RetFrom.type, RetTo.type)

\* C6 as stated (fallback): for resolved, non-empty types that none of the
\* listed rules matches (void pointer target, null conversions, identity,
\* numeric to boolean, pointer to boolean, string and byte sequence
\* conversions, byte sequence to boolean, numeric to numeric), CastExpr
\* returns noarch.<From>To<To>(e) and registers the noarch import.
C6_FallbackAsStated ==
    FallbackCase
        => /\ Returned(ShimCall(ret.e, RetFrom.type, RetTo.type))
           /\ NoarchImport \in imports

\* C6 amended (fallback): the same, for the pairs of types that neither a
\* listed rule nor one of the special cases of CastExpr matches
\* (*_IO_FILE to *noarch.File, int to *int, int to *byte, _Bool to bool).
C6_Fallback ==
    (FallbackCase /\ ~SpecialCaseMatches(RetFrom.type, RetTo.type))
        => /\ Returned(ShimCall(ret.e, RetFrom.type, RetTo.type))
           /\ NoarchImport \in imports

\* C6 witness: a cast of a runtime file handle to string on a Program
\* Context without the noarch import has returned noarch.FileToString(e)
\* and registered the import.
C6_Witness ==
    /\ ret.called
    /\ ret.from = "FILE *"
    /\ ret.to = "string"
    /\ NoarchImport \notin ret.before
    /\ ret.expr = CallExpr(Ident("noarch.FileToString"), <<ret.e>>)
    /\ NoarchImport \in imports

IsNoarchCall(e) == e.t = "CallExpr" /\ HasAt(e.fun.name, 1, "noarch.")

\* the expressions CastExpr builds hold a call at the top or under a unary
\* operator
HasNoarchCall(e) ==
    \/ IsNoarchCall(e)
    \/ e.t = "UnaryExpr" /\ IsNoarchCall(e.x)

\* C10 (runtime import completeness): when CastExpr has returned an
\* expression that calls a noarch function, the noarch import path is
\* among the imports of the Program Context.
C10_RuntimeImportComplete ==
    (ret.called /\ ~ret.panic /\ HasNoarchCall(ret.expr))
        => NoarchImport \in imports

(***************************************************************************)
(* Properties of the AST nodes.                                            *)
(***************************************************************************)
\* C9 (append-only ordered children): a node of each of the three kinds
\* is parsed with no child; at any time its Children are the nodes added
\* by AddChild, in call order, and all its other attributes are those it
\* was parsed with.
C9_AppendOnlyChildren ==
    /\ Len(parsed) = Len(nodes)
    /\ Len(added) = Len(nodes)
    /\ \A n \in 1..Len(nodes) :
          /\ parsed[n].Children = <<>>
          /\ nodes[n] = [parsed[n] EXCEPT !.Children = added[n]]

\* C9 witness: a MaxFieldAlignmentAttr has got two different children,
\* and a node of each other kind exists.
C9_Witness ==
    /\ Len(nodes) = 3
    /\ nodes[1].kind = "MaxFieldAlignmentAttr"
    /\ nodes[1].Children = <<2, 3>>
    /\ nodes[2].kind = "IncompleteArrayType"
    /\ nodes[3].kind = "Typedef"

(***************************************************************************)
(* Properties of GetArrayTypeAndSize and IsNullExpr.                       *)
(***************************************************************************)
\* C7 (GetArrayTypeAndSize): the result is (T, N) for the spelling T [N]
\* of a fixed-size array, and ("", -1) for a spelling that is not an array
\* with a fixed size: a scalar, a pointer, an incomplete array, a spelling
\* that only contains a bracketed number.
C7_ArrayTypeAndSize ==
    out.op = "GetArrayTypeAndSize"
        => /\ \A T \in ElemSpellings, n \in ArrayLens :
                  out.s = FixedArray(T, n)
                      => out.result = [type |-> T, size |-> n]
           /\ out.s \in NotFixedArraySpellings
                  => out.result = [type |-> "", size |-> -1]

\* C8 (IsNullExpr): the result is true exactly for (0), the parenthesised
\* integer literal 0.
C8_IsNullExprExact ==
    out.op = "IsNullExpr"
        => (out.result <=> out.n = ParenExpr(BasicLit("INT", "0")))

=============================================================================
